---- MODULE Spec2Model ----
\* The ProductHunt ideator pipeline of producthunt_ideator/web/api/ideator/controller.py:
\* run_workflow constructs an IdeatorWorkflow (token exchange), the workflow
\* fetches the catalog pages of one date, ranks and truncates the posts, and sends
\* one ProductEvent per product through _process_product -> _reimagine_product ->
\* _collect_results; generate_markdown writes the document of the date.
EXTENDS Integers, Sequences, FiniteSets, TLC

\* ---------------------------------------------------------------------------
\* Bounds of the model (inputs of the environment)
\* ---------------------------------------------------------------------------
MaxPages == 2
MaxPageLen == 3
MaxNodes == 4
MaxVotes == 2

\* settings.post_limit
PostLimit == 3

\* IdeatorWorkflow.__init__(timeout=10.0): the default wall-clock timeout
DefaultTimeout == "10.0"

\* Python's None (run_workflow constructs the workflow with timeout=None)
None == "None"

\* ---------------------------------------------------------------------------
\* Sequence helpers
\* ---------------------------------------------------------------------------
RECURSIVE SumSeq(_)
SumSeq(s) == IF s = <<>> THEN 0 ELSE Head(s) + SumSeq(Tail(s))

Take(s, n) == SubSeq(s, 1, IF Len(s) < n THEN Len(s) ELSE n)

Drop(s, n) == SubSeq(s, (IF Len(s) < n THEN Len(s) ELSE n) + 1, Len(s))

Range(s) == {s[i] : i \in 1..Len(s)}

Last(s) == s[Len(s)]

\* ---------------------------------------------------------------------------
\* The catalog: the pages the API holds for the date. A node is a post dict
\* (here its name and its votesCount); a page is a sequence of nodes.
\* ---------------------------------------------------------------------------
PageLens ==
    {l \in UNION {[1..p -> 0..MaxPageLen] : p \in 0..MaxPages} : SumSeq(l) <= MaxNodes}

Offset(lens, p) == SumSeq(SubSeq(lens, 1, p - 1))

MakeCatalog(lens, votes) ==
    [p \in 1..Len(lens) |->
        [j \in 1..lens[p] |->
            [name |-> Offset(lens, p) + j, votesCount |-> votes[Offset(lens, p) + j]]]]

Catalogs ==
    UNION {{MakeCatalog(l, v) : v \in [1..SumSeq(l) -> 1..MaxVotes]} : l \in PageLens}

RECURSIVE Flatten(_)
Flatten(pages) == IF pages = <<>> THEN <<>> ELSE Head(pages) \o Flatten(Tail(pages))

\* posts(order: VOTES, ...): the catalogs that answer in vote order (the n-th of
\* their nodes being the n-th most voted) and in pages of one size, the last page
\* holding the rest.
PagedLens(n, size) ==
    [p \in 1..((n + size - 1) \div size) |-> IF p * size <= n THEN size ELSE n - (p - 1) * size]

RankedCatalogs ==
    {MakeCatalog(PagedLens(n, size), [j \in 1..n |-> n - j + 1]) :
        <<n, size>> \in {x \in (0..MaxNodes) \X (1..MaxPageLen) :
                            (x[1] + x[2] - 1) \div x[2] <= MaxPages}}

\* The response to the query with `after: cursor`: the nodes of the next page and
\* its pageInfo. endCursor is the number of the page returned; "" is cursor 0.
PageNodes(cat, c) == IF c + 1 <= Len(cat) THEN cat[c + 1] ELSE <<>>

PageHasNext(cat, c) == c + 1 < Len(cat)

\* ---------------------------------------------------------------------------
\* sorted(all_posts, key=lambda x: x["votesCount"], reverse=True): a stable sort,
\* posts of equal votesCount keep their order in all_posts.
\* ---------------------------------------------------------------------------
RECURSIVE InsertDesc(_, _)
InsertDesc(s, x) ==
    IF s = <<>> THEN <<x>>
    ELSE IF Head(s).votesCount >= x.votesCount
         THEN <<Head(s)>> \o InsertDesc(Tail(s), x)
         ELSE <<x>> \o s

\* Mutant: reverse=True is forgotten, the posts are ranked by ascending votes.
RECURSIVE InsertAsc(_, _)
InsertAsc(s, x) ==
    IF s = <<>> THEN <<x>>
    ELSE IF Head(s).votesCount <= x.votesCount
         THEN <<Head(s)>> \o InsertAsc(Tail(s), x)
         ELSE <<x>> \o s

RECURSIVE SortedAscending(_)
SortedAscending(posts) ==
    IF posts = <<>> THEN <<>>
    ELSE InsertAsc(SortedAscending(SubSeq(posts, 1, Len(posts) - 1)), posts[Len(posts)])

RECURSIVE SortedDesc(_)
SortedDesc(posts) ==
    IF posts = <<>> THEN <<>>
    ELSE InsertDesc(SortedDesc(SubSeq(posts, 1, Len(posts) - 1)), posts[Len(posts)])

\* Product(**post): the derived fields start empty.
Product(post) ==
    [name |-> post.name, votes_count |-> post.votesCount,
     long_description |-> "", og_image_url |-> ""]

\* Mutant: the posts are truncated before they are ranked.
TruncatedThenSorted(posts) ==
    [k \in 1..Len(Take(posts, PostLimit)) |->
        Product(SortedDesc(Take(posts, PostLimit))[k])]

\* products = [Product(**post) for post in sorted(...)[: settings.post_limit]]
MakeProducts(posts) ==
    [k \in 1..Len(Take(SortedDesc(posts), PostLimit)) |->
        Product(Take(SortedDesc(posts), PostLimit)[k])]

\* ---------------------------------------------------------------------------
\* Product: _extract_landing_page_text, generate_description, fetch_og_image_url
\* ---------------------------------------------------------------------------
\* fetch_url gives None when the download fails; extract gives None (or "") when
\* the page has no extractable text.
Downloads == {None, "html_without_text", "html"}

Extract(downloaded) == IF downloaded = "html" THEN "landing page text" ELSE None

\* return document if document else ""
ExtractLandingPageText(downloaded) ==
    IF Extract(downloaded) \notin {None, ""} THEN Extract(downloaded) ELSE ""

\* requests.get(self.url, timeout=20) raises on a connection error or a timeout;
\* otherwise it returns a response with a status code and, in its HTML, possibly
\* an og:image meta tag.
OgResponses ==
    {[raised |-> TRUE, status_code |-> 0, og_image |-> None]}
        \cup {[raised |-> FALSE, status_code |-> c, og_image |-> t] :
                 <<c, t>> \in {<<200, None>>, <<200, "og_image_url">>, <<404, "og_image_url">>}}

\* The GET of a product that has not been enriched yet: none.
NoResponse == [raised |-> FALSE, status_code |-> 0, og_image |-> None]

\* requests.get raises: nothing in fetch_og_image_url or _process_product catches it.
OgRequestRaises(response) == response.raised

\* Mutant: the status code of the response is not looked at.
OgImageUrlIgnoringStatus(current, response) ==
    IF response.og_image # None THEN response.og_image ELSE current

\* if response.status_code == 200: ... if og_image: self.og_image_url = ...
OgImageUrl(current, response) ==
    IF response.status_code = 200 /\ response.og_image # None
    THEN response.og_image
    ELSE current

\* ---------------------------------------------------------------------------
\* State
\* ---------------------------------------------------------------------------
VARIABLES
    catalog,         \* the pages the catalog API holds for the date
    timeout,         \* Workflow timeout given to IdeatorWorkflow.__init__
    status,          \* position of run_workflow
    failure,         \* the exception that ended the run, "" if none
    token,           \* IdeatorWorkflow.token
    tokenExchanges,  \* the status codes of the POSTs to the oauth/token endpoint
    requests,        \* the catalog queries sent so far: cursor and response status
    all_posts,       \* local of _fetch_product_hunt_data
    has_next_page,   \* local of _fetch_product_hunt_data
    cursor,          \* local of _fetch_product_hunt_data
    products,        \* the Product objects, in the order their ProductEvent was sent
    productQueue,    \* ProductEvents waiting for a _process_product worker
    processing,      \* _process_product instances awaiting llm.achat
    reimagineQueue,  \* ReimagineEvents waiting for a _reimagine_product worker
    reimagining,     \* _reimagine_product instances awaiting the completion
    finalQueue,      \* FinalResultEvents waiting for _collect_results
    buffer,          \* the Context's buffer of collect_events
    arrived,         \* the FinalResultEvents _collect_results has received, in order
    stopEvents,      \* number of StopEvents returned by _collect_results
    result,          \* the result of w.run (the StopEvent's result), <<>> if none
    llmCalls,        \* per product: LLM calls issued by each stage
    og_responses,    \* per product: the response to the GET of fetch_og_image_url
    sentEvents,      \* per product: ReimagineEvents and FinalResultEvents sent for it
    document,        \* the file data/producthunt-daily-<date>.md: whether it exists, its lines
    date,            \* the date given to run_workflow
    published,       \* the executions of publish_to_wordpress, one record each
    errorFiles,      \* the data/error_<slug>.json files
    jobs,            \* the Celery tasks sent to the broker, with their state
    http,            \* the last request the API answered, and its response
    runs,            \* the run_workflow tasks that execute side by side
    contexts,        \* per Context: the events buffered by collect_events
    position,        \* per stage instance: how far its coroutine has run
    loop             \* the stage instance the thread of the event loop is executing

\* The state of one run of the pipeline.
pipelineVars ==
    <<catalog, timeout, status, failure, token, tokenExchanges, requests, all_posts,
      has_next_page, cursor, products, productQueue, processing, reimagineQueue,
      reimagining, finalQueue, buffer, arrived, stopEvents, result, llmCalls,
      og_responses, sentEvents, document>>

\* The date of the run and the state of the service around the run.
publishVars == <<published, errorFiles>>

apiVars == <<jobs, http>>

loopVars == <<position, loop>>

envVars == <<date, publishVars, apiVars, runs, contexts, loopVars>>

vars == <<pipelineVars, envVars>>

fetchVars == <<requests, all_posts, has_next_page, cursor>>

stageVars ==
    <<productQueue, processing, reimagineQueue, reimagining, finalQueue, buffer, arrived>>

\* A file that does not exist.
NoFile == [exists |-> FALSE, content |-> <<>>]

Start ==
    /\ status = "new"
    /\ failure = ""
    /\ token = None
    /\ tokenExchanges = <<>>
    /\ requests = <<>>
    /\ all_posts = <<>>
    /\ has_next_page = TRUE
    /\ cursor = 0
    /\ products = <<>>
    /\ productQueue = <<>>
    /\ processing = {}
    /\ reimagineQueue = <<>>
    /\ reimagining = {}
    /\ finalQueue = <<>>
    /\ buffer = <<>>
    /\ arrived = <<>>
    /\ stopEvents = 0
    /\ result = <<>>
    /\ llmCalls = <<>>
    /\ og_responses = <<>>
    /\ sentEvents = <<>>
    /\ document = NoFile

\* No request has been answered.
NoExchange == [n |-> 0, request |-> <<>>, response |-> <<>>]

\* No stage instance: the thread of the event loop executes none.
Nobody == [step |-> None, product |-> 0]

\* Nothing else is going on in the service.
Idle ==
    /\ jobs = <<>>
    /\ http = NoExchange
    /\ published = <<>>
    /\ errorFiles = {}
    /\ runs = <<>>
    /\ contexts = <<>>
    /\ position = <<>>
    /\ loop = Nobody

\* A run of the pipeline against a catalog that answers in vote order.
Init ==
    /\ catalog \in RankedCatalogs
    /\ timeout \in {None, DefaultTimeout}
    /\ date = "2024-01-01"
    /\ Start
    /\ Idle

\* The fetch stage of run_workflow against any catalog.
FetchInit ==
    /\ catalog \in Catalogs
    /\ timeout = None
    /\ date = "2024-01-01"
    /\ Start
    /\ Idle

\* ---------------------------------------------------------------------------
\* Failure of the run: an exception raised by the constructor or by a step, or the
\* expiry of the Workflow timeout, ends w.run with an exception; the Workflow
\* cancels the step workers, so run_workflow never reaches generate_markdown.
\* ---------------------------------------------------------------------------
Cancelled ==
    /\ productQueue' = <<>>
    /\ processing' = {}
    /\ reimagineQueue' = <<>>
    /\ reimagining' = {}
    /\ finalQueue' = <<>>
    /\ buffer' = <<>>
    /\ UNCHANGED arrived

Raise(reason) ==
    /\ status' = "failed"
    /\ failure' = reason
    /\ Cancelled

\* ---------------------------------------------------------------------------
\* IdeatorWorkflow.__init__ / _get_producthunt_token
\* ---------------------------------------------------------------------------
\* Mutant: the status of the token response is not checked.
TokenNeverRefused(status_code) == FALSE

\* if response.status_code != 200: raise
TokenRefused(status_code) == status_code # 200

\* The answers of the oauth/token endpoint: a status code and, in the JSON body,
\* an access_token or none.
TokenResponses ==
    {[status_code |-> 200, access_token |-> "access_token"],
     [status_code |-> 200, access_token |-> None],
     [status_code |-> 401, access_token |-> None]}

\* return response.json().get("access_token"): None when the body has no token.
Construct ==
    /\ status = "new"
    /\ \E response \in TokenResponses :
         /\ tokenExchanges' = Append(tokenExchanges, response.status_code)
         /\ IF TokenRefused(response.status_code)
            THEN /\ Raise("token")
                 /\ UNCHANGED token
            ELSE /\ token' = response.access_token
                 /\ status' = "fetching"
                 /\ UNCHANGED <<failure, stageVars>>
    /\ UNCHANGED <<envVars, catalog, timeout, fetchVars, products, stopEvents, result,
                   llmCalls, og_responses, sentEvents, document>>

\* ---------------------------------------------------------------------------
\* _fetch_product_hunt_data
\* ---------------------------------------------------------------------------
\* Mutant: the loop gives up one post short of the limit.
LoopStopsShort(next, posts) == next /\ Len(posts) < PostLimit - 1

\* Mutant: the loop goes on for as long as the catalog has a next page.
LoopIgnoresLimit(next, posts) == next

\* while has_next_page and len(all_posts) < settings.post_limit
LoopContinues(next, posts) == next /\ Len(posts) < PostLimit

\* Mutant: the status is checked for the first page only.
CatalogRefusedOnFirstPageOnly(status_code) == status_code # 200 /\ requests = <<>>

\* if response.status_code != 200: raise
CatalogRefused(status_code) == status_code # 200

\* One iteration of the loop: one query and its response. The iteration that
\* leaves the loop is followed by the ranking and by the send_event calls.
FetchPage ==
    /\ status = "fetching"
    /\ LoopContinues(has_next_page, all_posts)
    /\ \E status_code \in {200, 500} :
         /\ requests' = Append(requests, [after |-> cursor, authorization |-> <<"Bearer", " ", token>>,
                                        status_code |-> status_code])
         /\ IF CatalogRefused(status_code)
            THEN /\ Raise("catalog")
                 /\ UNCHANGED <<all_posts, has_next_page, cursor, products, llmCalls,
                                og_responses, sentEvents>>
            ELSE /\ all_posts' = all_posts \o PageNodes(catalog, cursor)
                 /\ has_next_page' = PageHasNext(catalog, cursor)
                 /\ cursor' = cursor + 1
                 /\ IF LoopContinues(has_next_page', all_posts')
                    THEN UNCHANGED <<status, failure, products, llmCalls, og_responses,
                                     sentEvents, stageVars>>
                    ELSE /\ products' = MakeProducts(all_posts')
                         /\ productQueue' = [k \in 1..Len(products') |-> k]
                         /\ llmCalls' = [k \in 1..Len(products') |->
                                            [enrich |-> 0, analyze |-> 0]]
                         /\ og_responses' = [k \in 1..Len(products') |-> NoResponse]
                         /\ sentEvents' = [k \in 1..Len(products') |->
                                              [enriched |-> 0, analyzed |-> 0]]
                         /\ status' = "running"
                         /\ UNCHANGED <<failure, processing, reimagineQueue, reimagining,
                                        finalQueue, buffer, arrived>>
    /\ UNCHANGED <<envVars, catalog, timeout, token, tokenExchanges, stopEvents, result, document>>

\* ---------------------------------------------------------------------------
\* _process_product (num_workers = settings.post_limit)
\* ---------------------------------------------------------------------------
\* Mutant: the steps run with the default of a single worker.
SingleWorker == PostLimit \div PostLimit

\* @step(num_workers=settings.post_limit): the number of instances of the step
\* the Workflow runs at once, for _process_product and for _reimagine_product.
NumWorkers == PostLimit

\* A worker takes the next ProductEvent, scrapes the landing page and awaits
\* llm.achat inside product.generate_description.
\* Mutant: the ReimagineEvent is sent as soon as the step starts, before the
\* description is generated and the preview fetched.
ProcessStartSendsEarly ==
    /\ status = "running"
    /\ productQueue # <<>>
    /\ Cardinality(processing) < NumWorkers
    /\ \E downloaded \in Downloads :
         processing' = processing \cup
             {[product |-> Head(productQueue), downloaded |-> downloaded,
               landing_page_text |-> ExtractLandingPageText(downloaded)]}
    /\ productQueue' = Tail(productQueue)
    /\ llmCalls' = [llmCalls EXCEPT ![Head(productQueue)].enrich = @ + 1]
    /\ reimagineQueue' = Append(reimagineQueue, Head(productQueue))
    /\ sentEvents' = [sentEvents EXCEPT ![Head(productQueue)].enriched = @ + 1]
    /\ UNCHANGED <<envVars, catalog, timeout, status, failure, token, tokenExchanges, fetchVars,
                   products, reimagining, finalQueue, buffer, arrived,
                   stopEvents, result, og_responses, document>>

ProcessStart ==
    /\ status = "running"
    /\ productQueue # <<>>
    /\ Cardinality(processing) < NumWorkers
    /\ \E downloaded \in Downloads :
         processing' = processing \cup
             {[product |-> Head(productQueue), downloaded |-> downloaded,
               landing_page_text |-> ExtractLandingPageText(downloaded)]}
    /\ productQueue' = Tail(productQueue)
    /\ llmCalls' = [llmCalls EXCEPT ![Head(productQueue)].enrich = @ + 1]
    /\ UNCHANGED <<envVars, catalog, timeout, status, failure, token, tokenExchanges, fetchVars,
                   products, reimagineQueue, reimagining, finalQueue, buffer, arrived,
                   stopEvents, result, og_responses, sentEvents, document>>

\* Mutant: the step swallows the exception of the LLM call and stays scheduled.
LlmErrorSwallowed ==
    /\ failure' = "llm"
    /\ UNCHANGED <<status, stageVars>>

\* The awaited LLM call raises: neither the step nor run_workflow catches it.
LlmError == Raise("llm")

\* llm.achat returns (or raises); then long_description is stored, the og:image is
\* fetched and the ReimagineEvent is sent.
ProcessResume(task) ==
    /\ status = "running"
    /\ task \in processing
    /\ \E llm_ok \in BOOLEAN, response \in OgResponses :
         IF ~llm_ok
         THEN /\ LlmError
              /\ UNCHANGED <<products, og_responses, sentEvents>>
         ELSE /\ og_responses' = [og_responses EXCEPT ![task.product] = response]
              /\ IF OgRequestRaises(response)
                 THEN /\ products' =
                           [products EXCEPT ![task.product].long_description = "summary"]
                      /\ Raise("og_image")
                      /\ UNCHANGED sentEvents
                 ELSE /\ products' =
                           [products EXCEPT
                              ![task.product].long_description = "summary",
                              ![task.product].og_image_url =
                                  OgImageUrl(products[task.product].og_image_url, response)]
                      /\ processing' = processing \ {task}
                      /\ reimagineQueue' = Append(reimagineQueue, task.product)
                      /\ sentEvents' = [sentEvents EXCEPT ![task.product].enriched = @ + 1]
                      /\ UNCHANGED <<status, failure, productQueue, reimagining,
                                     finalQueue, buffer, arrived>>
    /\ UNCHANGED <<envVars, catalog, timeout, token, tokenExchanges, fetchVars, stopEvents,
                   result, llmCalls, document>>

\* ---------------------------------------------------------------------------
\* _reimagine_product (num_workers = settings.post_limit)
\* ---------------------------------------------------------------------------
\* The texts a completion may put into the strengths and weaknesses of the
\* Analysis: a text is a sequence of characters; "{" and "}" are the braces, the
\* other elements stand for runs of other characters.
AnalysisTexts ==
    {[strengths |-> <<"strong">>, weaknesses |-> <<"weak">>],
     [strengths |-> <<"{", "strong", "}">>, weaknesses |-> <<"weak">>]}

\* The Analysis the completion returns for a product: strengths, weaknesses and
\* a list of proposals, each a title and a description (`about` records the
\* product whose summary the completion was given).
Proposal(k, texts) ==
    [about |-> products[k].name,
     strengths |-> texts.strengths,
     weaknesses |-> texts.weaknesses,
     proposals |-> << [title |-> <<"proposal for ", ToString(products[k].name)>>,
                       description |-> <<"description">>] >>]

\* FinalResultEvent(product=product, proposal=proposal)
FinalResultEvent(k, texts) == [product |-> k, proposal |-> Proposal(k, texts)]

ReimagineStart ==
    /\ status = "running"
    /\ reimagineQueue # <<>>
    /\ Cardinality(reimagining) < NumWorkers
    /\ reimagining' = reimagining \cup {Head(reimagineQueue)}
    /\ reimagineQueue' = Tail(reimagineQueue)
    /\ llmCalls' = [llmCalls EXCEPT ![Head(reimagineQueue)].analyze = @ + 1]
    /\ UNCHANGED <<envVars, catalog, timeout, status, failure, token, tokenExchanges, fetchVars,
                   products, productQueue, processing, finalQueue, buffer, arrived,
                   stopEvents, result, og_responses, sentEvents, document>>

\* Mutant: the analysis stage stores its text in the product it analyzed.
ReimagineResumeRewrites(k) ==
    /\ status = "running"
    /\ k \in reimagining
    /\ \E texts \in AnalysisTexts :
         /\ reimagining' = reimagining \ {k}
         /\ finalQueue' = Append(finalQueue, FinalResultEvent(k, texts))
         /\ sentEvents' = [sentEvents EXCEPT ![k].analyzed = @ + 1]
         /\ products' = [products EXCEPT ![k].long_description = "analysis"]
    /\ UNCHANGED <<envVars, catalog, timeout, status, failure, token, tokenExchanges,
                   fetchVars, productQueue, processing, reimagineQueue, buffer, arrived,
                   stopEvents, result, llmCalls, og_responses, document>>

ReimagineResume(k) ==
    /\ status = "running"
    /\ k \in reimagining
    /\ \E llm_ok \in BOOLEAN, texts \in AnalysisTexts :
         IF ~llm_ok
         THEN /\ LlmError
              /\ UNCHANGED sentEvents
         ELSE /\ reimagining' = reimagining \ {k}
              /\ finalQueue' = Append(finalQueue, FinalResultEvent(k, texts))
              /\ sentEvents' = [sentEvents EXCEPT ![k].analyzed = @ + 1]
              /\ UNCHANGED <<status, failure, productQueue, processing, reimagineQueue,
                             buffer, arrived>>
    /\ UNCHANGED <<envVars, catalog, timeout, token, tokenExchanges, fetchVars, products,
                   stopEvents, result, llmCalls, og_responses, document>>

\* ---------------------------------------------------------------------------
\* _collect_results
\* ---------------------------------------------------------------------------
\* Mutant: the barrier releases one event early.
CollectEventsEarly(buf, ev) ==
    IF Len(Append(buf, ev)) >= PostLimit - 1
    THEN [buffer |-> <<>>, result |-> Append(buf, ev)]
    ELSE [buffer |-> Append(buf, ev), result |-> <<>>]

\* Mutant: the batch is returned in the order the products were emitted.
CollectEventsRanked(buf, ev) ==
    IF Len(Append(buf, ev)) >= PostLimit
    THEN [buffer |-> <<>>,
          result |-> [i \in 1..Len(Append(buf, ev)) |->
                         CHOOSE e \in Range(Append(buf, ev)) :
                             Cardinality({x \in Range(Append(buf, ev)) :
                                             x.product < e.product}) = i - 1]]
    ELSE [buffer |-> Append(buf, ev), result |-> <<>>]

\* ctx.collect_events(ev, [FinalResultEvent] * settings.post_limit): the event is
\* buffered; when the buffer holds an event for each expected type they are taken
\* from its front, in buffer order, and returned; otherwise None (here <<>>).
CollectEvents(buf, ev) ==
    IF Len(Append(buf, ev)) >= PostLimit
    THEN [buffer |-> Drop(Append(buf, ev), PostLimit),
          result |-> Take(Append(buf, ev), PostLimit)]
    ELSE [buffer |-> Append(buf, ev), result |-> <<>>]

CollectResults ==
    /\ status = "running"
    /\ finalQueue # <<>>
    /\ finalQueue' = Tail(finalQueue)
    /\ arrived' = Append(arrived, Head(finalQueue))
    /\ buffer' = CollectEvents(buffer, Head(finalQueue)).buffer
    /\ IF CollectEvents(buffer, Head(finalQueue)).result = <<>>
       THEN UNCHANGED <<status, stopEvents, result>>
       ELSE /\ status' = "stopped"
            /\ stopEvents' = stopEvents + 1
            /\ result' = CollectEvents(buffer, Head(finalQueue)).result
    /\ UNCHANGED <<envVars, catalog, timeout, failure, token, tokenExchanges, fetchVars, products,
                   productQueue, processing, reimagineQueue, reimagining, llmCalls,
                   og_responses, sentEvents, document>>

\* ---------------------------------------------------------------------------
\* The Workflow timeout: with a timeout set, w.run raises once it has expired.
\* ---------------------------------------------------------------------------
TimeoutArmed(t) == t # None

\* A timer that would end the run by handing over what the barrier has buffered.
TimeoutReturnsPartial ==
    /\ status = "running"
    /\ TimeoutArmed(timeout)
    /\ status' = "stopped"
    /\ failure' = "timeout"
    /\ result' = buffer
    /\ productQueue' = <<>> /\ processing' = {} /\ reimagineQueue' = <<>>
    /\ reimagining' = {} /\ finalQueue' = <<>>
    /\ UNCHANGED <<envVars, catalog, timeout, token, tokenExchanges, fetchVars, products,
                   buffer, arrived, stopEvents, llmCalls, og_responses, sentEvents,
                   document>>

Timeout ==
    /\ status = "running"
    /\ TimeoutArmed(timeout)
    /\ Raise("timeout")
    /\ UNCHANGED <<envVars, catalog, timeout, token, tokenExchanges, fetchVars, products,
                   stopEvents, result, llmCalls, og_responses, sentEvents, document>>

\* ---------------------------------------------------------------------------
\* generate_markdown(events, date)
\* ---------------------------------------------------------------------------
\* A document is a sequence of lines and a line a sequence of characters, as a
\* text is. The fields of a Product the model does not carry (tagline, url,
\* featured, created_at) are left out of its block.
\* ---------------------------------------------------------------------------
\* Product.to_markdown
ProductMarkdown(product) ==
    << <<"#", "#", " ", "[", ToString(product.name), "]">>,
       <<"**Description**:", " ", product.long_description>>,
       <<>>,
       <<"![", ToString(product.name), "](", product.og_image_url, ")">>,
       <<>>,
       <<"**Votes**:", " ", ToString(product.votes_count)>>,
       <<>> >>

\* str.format(proposals=...) applied to a line that holds no "{proposals}": "{{"
\* and "}}" give one brace, any other brace raises (ValueError for a brace
\* left open, KeyError or IndexError for a field format() was not given).
RECURSIVE FormatRaises(_)
FormatRaises(line) ==
    IF line = <<>> THEN FALSE
    ELSE IF Head(line) \in {"{", "}"}
         THEN IF Len(line) >= 2 /\ line[2] = Head(line)
              THEN FormatRaises(SubSeq(line, 3, Len(line)))
              ELSE TRUE
         ELSE FormatRaises(Tail(line))

\* The line format() returns when it does not raise.
RECURSIVE Format(_)
Format(line) ==
    IF line = <<>> THEN <<>>
    ELSE IF Head(line) \in {"{", "}"} /\ Len(line) >= 2 /\ line[2] = Head(line)
         THEN <<Head(line)>> \o Format(SubSeq(line, 3, Len(line)))
         ELSE <<Head(line)>> \o Format(Tail(line))

\* proposals = "\n".join([f"- {p.title}: {p.description}" for p in self.proposals]):
\* a line per proposal, a single empty line when there is none.
ProposalList(proposals) ==
    IF proposals = <<>> THEN << <<>> >>
    ELSE [i \in 1..Len(proposals) |->
             <<"-", " ">> \o proposals[i].title \o <<":", " ">> \o proposals[i].description]

\* The f-string of Analysis.to_markdown: the texts of the Analysis are already
\* in it when format() is applied to it. Each "\n" written at the end of a
\* heading adds an empty line to the one of the source.
AnalysisTemplate(proposal) ==
    << <<>>,
       <<"#", "#", " ", "Product analysis:">>,
       <<>>,
       <<>>,
       <<"#", "#", "#", " ", "Strengths:">>,
       <<>>,
       proposal.strengths,
       <<>>,
       <<"#", "#", "#", " ", "Weaknesses:">>,
       <<>>,
       proposal.weaknesses,
       <<>>,
       <<"#", "#", "#", " ", "Proposals">>,
       <<>> >> \o ProposalList(proposal.proposals)

\* Analysis.to_markdown: f"""...""".format(proposals=proposals) raises
AnalysisRaises(proposal) ==
    \E i \in 1..Len(AnalysisTemplate(proposal)) : FormatRaises(AnalysisTemplate(proposal)[i])

\* Analysis.to_markdown: the block it returns when it does not raise
AnalysisMarkdown(proposal) ==
    [i \in 1..Len(AnalysisTemplate(proposal)) |-> Format(AnalysisTemplate(proposal)[i])]

\* markdown_content += "---\n\n": the block does not end with a newline, so the
\* separator continues its last line.
WithSeparator(lines) ==
    SubSeq(lines, 1, Len(lines) - 1) \o <<lines[Len(lines)] \o <<"---">>, <<>> >>

\* f"# ProductHunt Top {settings.post_limit} | {date}\n\n"
TitleLines(d) ==
    << <<"#", " ", "ProductHunt Top", " ", ToString(PostLimit), " ", "|", " ", d>>, <<>> >>

\* The content generate_markdown builds from the events, event after event.
RECURSIVE Blocks(_)
Blocks(events) ==
    IF events = <<>> THEN <<>>
    ELSE ProductMarkdown(products[Head(events).product])
             \o WithSeparator(AnalysisMarkdown(Head(events).proposal))
             \o Blocks(Tail(events))

\* event.proposal.to_markdown() raises for one of the events
MarkdownRaises(events) == \E i \in 1..Len(events) : AnalysisRaises(events[i].proposal)

\* markdown_content
Markdown(events, d) == TitleLines(d) \o Blocks(events)

\* open(file_name, "w"): the file is created, or emptied if it exists.
Open(old) == [exists |-> TRUE, content |-> <<>>]

\* The most pieces in which the text of one file.write reaches the file.
MaxChunks == 2

\* The lines of the content that are in the file once p of the pieces are.
Cut(content, p) == Take(content, (Len(content) * p) \div MaxChunks)

\* generate_markdown(events, date), the last statement of run_workflow, up to
\* open(file_name, "w"): an exception of to_markdown ends the task before the
\* file is opened.
GenerateMarkdown ==
    /\ status = "stopped"
    /\ IF MarkdownRaises(result)
       THEN /\ status' = "failed"
            /\ failure' = "render"
            /\ UNCHANGED document
       ELSE /\ status' = "writing"
            /\ document' = Open(document)
            /\ UNCHANGED failure
    /\ UNCHANGED <<envVars, catalog, timeout, token, tokenExchanges, fetchVars, products,
                   stageVars, stopEvents, result, llmCalls, og_responses, sentEvents>>

\* file.write(markdown_content) and the close at the end of the `with`: the
\* text reaches the file piece after piece, or all at once; with its last piece
\* the task is done.
WriteDocument ==
    /\ status = "writing"
    /\ \E content \in {Markdown(result, date)} :
         \E p \in 1..MaxChunks :
            /\ Len(Cut(content, p)) > Len(document.content)
            /\ document' = [exists |-> TRUE, content |-> Cut(content, p)]
            /\ status' = IF p = MaxChunks THEN "done" ELSE "writing"
    /\ UNCHANGED <<envVars, catalog, timeout, failure, token, tokenExchanges, fetchVars,
                   products, stageVars, stopEvents, result, llmCalls, og_responses,
                   sentEvents>>

\* ---------------------------------------------------------------------------
\* publish_to_wordpress()
\* ---------------------------------------------------------------------------
MaxPublishes == 2

\* The dates the clock of the worker and the callers of run_workflow may give.
Dates == {"2024-01-01", "2024-01-02"}

\* Mutant: the name of the document does not depend on the date.
FileNameUndated(d) == <<"data", "/", "producthunt-daily", ".md">>

\* f"data/producthunt-daily-{date}.md"
FileName(d) == <<"data", "/", "producthunt-daily-", d, ".md">>

\* open(file_name, "r").read(): the only document in data/ is the one of the
\* run; a file that does not exist stands for FileNotFoundError.
ReadFile(file_name) == IF file_name = FileName(date) THEN document ELSE NoFile

RECURSIVE LStrip(_, _)
LStrip(line, chars) ==
    IF line # <<>> /\ Head(line) \in chars THEN LStrip(Tail(line), chars) ELSE line

RECURSIVE RStrip(_, _)
RStrip(line, chars) ==
    IF line # <<>> /\ line[Len(line)] \in chars
    THEN RStrip(SubSeq(line, 1, Len(line) - 1), chars)
    ELSE line

\* str.strip(chars); str.strip() strips whitespace
Strip(line, chars) == RStrip(LStrip(line, chars), chars)

Whitespace == {" "}

\* title = content.splitlines()[0].strip("#").strip()
Title(content) == Strip(Strip(content[1], {"#"}), Whitespace)

\* Mutant: the first line stays in the body.
BodyWithTitle(content) == content

\* if lines and lines[0].startswith("#"): lines = lines[1:]
Body(content) ==
    IF content # <<>> /\ content[1] # <<>> /\ content[1][1] = "#"
    THEN Tail(content)
    ELSE content

\* markdown.markdown(content_without_title): a line of hashes and text becomes a
\* heading, any other line that is not blank a paragraph.
HtmlLine(line) ==
    IF line[1] = "#"
    THEN <<"<h", ToString(Len(line) - Len(LStrip(line, {"#"}))), ">">>
             \o Strip(LStrip(line, {"#"}), Whitespace)
    ELSE <<"<p>">> \o line

Html(lines) ==
    [i \in 1..Len(SelectSeq(lines, LAMBDA l : l # <<>>)) |->
        HtmlLine(SelectSeq(lines, LAMBDA l : l # <<>>)[i])]

\* os.path.basename(file_name)
RECURSIVE Basename(_)
Basename(path) ==
    IF \E i \in 1..Len(path) : path[i] = "/" THEN Basename(Tail(path)) ELSE path

\* slug = os.path.basename(file_name).replace(".md", "")
Slug(file_name) == SelectSeq(Basename(file_name), LAMBDA c : c # ".md")

\* f"data/error_{slug}.json"
ErrorFileName(slug) == <<"data", "/", "error_">> \o slug \o <<".json">>

PostData(content, file_name) ==
    [title |-> Title(content), content |-> Html(Body(content)), status |-> "publish",
     slug |-> Slug(file_name), categories |-> <<337>>]

\* requests.post(..., allow_redirects=False, timeout=30) raises when no response
\* arrives; otherwise it returns the response, whatever its status.
PostResponses ==
    {[raised |-> TRUE, status_code |-> 0, text |-> ""]}
        \cup {[raised |-> FALSE, status_code |-> c, text |-> "response text"] :
                 c \in {200, 201, 500}}

\* if response.status_code == 201
IsPublished(response) == response.status_code = 201

\* Mutant: the diagnostic file is written whenever the task logs an error.
ErrorFilesOnAnyError(files, outcome, file_name, response) ==
    IF outcome \in {"failed", "not_found"}
    THEN {f \in files : f.file_name # ErrorFileName(Slug(file_name))}
             \cup {[file_name |-> ErrorFileName(Slug(file_name)), text |-> response.text]}
    ELSE files

\* open(f"data/error_{slug}.json", "w").write(response.text), in the else branch
ErrorFilesAfter(files, outcome, file_name, response) ==
    IF outcome = "failed"
    THEN {f \in files : f.file_name # ErrorFileName(Slug(file_name))}
             \cup {[file_name |-> ErrorFileName(Slug(file_name)), text |-> response.text]}
    ELSE files

\* The POST has been sent and not yet answered.
NoPostResponse == [raised |-> FALSE, status_code |-> 0, text |-> ""]

\* How far the task gets before it waits for the CMS: FileNotFoundError is
\* logged and the task returns ("not_found"); content.splitlines()[0] raises
\* IndexError on a file without a line ("index_error"); otherwise the POST is
\* sent ("posting").
ReadOutcome(file) ==
    IF ~file.exists THEN "not_found"
    ELSE IF file.content = <<>> THEN "index_error"
    ELSE "posting"

\* How the task ends once requests.post has returned or raised: "published" is
\* the logged success, "failed" the logged error, "raised" an exception leaving
\* the task.
Outcome(response) ==
    IF response.raised THEN "raised"
    ELSE IF IsPublished(response) THEN "published"
    ELSE "failed"

\* One execution of the task up to its POST: the date of the clock, the file it
\* opens, what it reads and the POST it sends.
Execution(today) ==
    [today |-> today,
     file_name |-> FileName(today),
     content |-> ReadFile(FileName(today)),
     outcome |-> ReadOutcome(ReadFile(FileName(today))),
     posts |-> IF ReadOutcome(ReadFile(FileName(today))) = "posting"
               THEN <<[data |-> PostData(ReadFile(FileName(today)).content, FileName(today)),
                       response |-> NoPostResponse]>>
               ELSE <<>>]

\* A worker executes the task from its start to requests.post(...).
PublishToWordpress ==
    /\ Len(published) < MaxPublishes
    /\ \E today \in Dates :
         /\ published' = Append(published, Execution(today))
         /\ errorFiles' = ErrorFilesAfter(errorFiles, Execution(today).outcome,
                                          FileName(today), NoPostResponse)
    /\ UNCHANGED <<pipelineVars, loopVars, date, apiVars, runs, contexts>>

\* requests.post of execution i returns or raises; the task logs the result and,
\* unless the status is 201, writes the diagnostic file.
PublishAnswered(i) ==
    /\ published[i].outcome = "posting"
    /\ \E response \in PostResponses :
         /\ published' = [published EXCEPT
                              ![i].outcome = Outcome(response),
                              ![i].posts = <<[data |-> published[i].posts[1].data,
                                              response |-> response]>>]
         /\ errorFiles' = ErrorFilesAfter(errorFiles, Outcome(response),
                                          published[i].file_name, response)
    /\ UNCHANGED <<pipelineVars, loopVars, date, apiVars, runs, contexts>>

\* ---------------------------------------------------------------------------
\* The HTTP interface: the routes of views.py, answered by FastAPI, and the
\* Celery tasks they send.
\* ---------------------------------------------------------------------------
MaxRequests == 3

MaxJobs == 2

\* @router.post("/"), @router.get("/status"), @router.post("/publish")
Routes ==
    {[method |-> "POST", path |-> "/", name |-> "run_workflow"],
     [method |-> "GET", path |-> "/status", name |-> "check_workflow_status"],
     [method |-> "POST", path |-> "/publish", name |-> "publish_to_wordpress"]}

\* RunWorkflowIn.date: default=datetime.today().strftime("%Y-%m-%d"), evaluated
\* when the module is imported.
DefaultDate == "2024-01-01"

\* The task ids a client may ask about: ids of tasks sent and ids never issued.
TaskIds == {ToString(n) : n \in 1..MaxJobs} \cup {"some_task_id"}

\* The requests of the clients. A request has a JSON body or none ("None");
\* the body may give a date or leave it out; a query may give a task_id.
Requests ==
    {[method |-> m, path |-> "/", body |-> b, task_id |-> None] :
        m \in {"GET", "POST"},
        b \in {None, "{}"} \cup Dates}
    \cup {[method |-> "GET", path |-> "/status", body |-> None, task_id |-> t] :
             t \in TaskIds \cup {None}}
    \cup {[method |-> "POST", path |-> "/publish", body |-> None, task_id |-> None]}

\* The route FastAPI dispatches the request to, "405" when the path has no route
\* for the method.
Route(request) ==
    IF \E r \in Routes : r.method = request.method /\ r.path = request.path
    THEN (CHOOSE r \in Routes : r.method = request.method /\ r.path = request.path).name
    ELSE "405"

\* body: RunWorkflowIn / task_id: str are required parameters.
Unprocessable(request) ==
    \/ Route(request) = "run_workflow" /\ request.body = None
    \/ Route(request) = "check_workflow_status" /\ request.task_id = None

\* body.date
BodyDate(request) == IF request.body = "{}" THEN DefaultDate ELSE request.body

\* task.delay(*args): a new task id, the message sent to the broker; the state
\* of a task nothing has been stored for is PENDING.
Delay(sent, task, args) ==
    Append(sent, [task_id |-> ToString(Len(sent) + 1), task |-> task, args |-> args,
                  status |-> "PENDING"])

\* Mutant: a task id the backend knows nothing about has no state.
StatusOfKnownOnly(sent, task_id) ==
    IF \E j \in 1..Len(sent) : sent[j].task_id = task_id
    THEN sent[CHOOSE j \in 1..Len(sent) : sent[j].task_id = task_id].status
    ELSE None

\* celery_app.AsyncResult(task_id).status
AsyncResultStatus(sent, task_id) ==
    IF \E j \in 1..Len(sent) : sent[j].task_id = task_id
    THEN sent[CHOOSE j \in 1..Len(sent) : sent[j].task_id = task_id].status
    ELSE "PENDING"

\* _to_task_out(r)
TaskOut(task_id, task_status) == [id |-> task_id, status |-> task_status]

NoBody == [id |-> None, status |-> None]

\* The tasks sent once the request is answered.
JobsAfter(sent, request) ==
    IF Unprocessable(request) THEN sent
    ELSE IF Route(request) = "run_workflow"
         THEN Delay(sent, "run_workflow", <<BodyDate(request)>>)
    ELSE IF Route(request) = "publish_to_wordpress"
         THEN Delay(sent, "publish_to_wordpress", <<>>)
    ELSE sent

\* The response to the request, as far as the handler has it once its first
\* call has returned: FastAPI's own answers (405, 422), the answer to a status
\* query, or, with status code 0, the AsyncResult delay() returned, whose state
\* has not been read yet.
Response(sent, request) ==
    IF Route(request) = "405" THEN [status_code |-> 405, body |-> NoBody]
    ELSE IF Unprocessable(request) THEN [status_code |-> 422, body |-> NoBody]
    ELSE IF Route(request) = "check_workflow_status"
         THEN [status_code |-> 200,
               body |-> TaskOut(request.task_id, AsyncResultStatus(sent, request.task_id))]
    ELSE [status_code |-> 0,
          body |-> TaskOut(Last(JobsAfter(sent, request)).task_id, None)]

\* The handler of the last request has not returned yet.
InHandler == http.n > 0 /\ http.response.status_code = 0

\* FastAPI takes a request: it answers it itself, or the handler runs up to the
\* return of its first call (delay(), or the read of the state for a status
\* query).
Serve ==
    /\ http.n < MaxRequests
    /\ ~InHandler
    /\ \E request \in Requests :
         /\ Len(JobsAfter(jobs, request)) <= MaxJobs
         /\ jobs' = JobsAfter(jobs, request)
         /\ http' = [n |-> http.n + 1, request |-> request,
                     response |-> Response(jobs, request)]
    /\ UNCHANGED <<pipelineVars, loopVars, date, publishVars, runs, contexts>>

\* return controller._to_task_out(r): r.status is read from the backend, after
\* delay() has returned, and the handler answers.
ToTaskOut ==
    /\ InHandler
    /\ http' = [http EXCEPT
                    !.response = [status_code |-> 200,
                                  body |-> TaskOut(http.response.body.id,
                                                   AsyncResultStatus(jobs,
                                                       http.response.body.id))]]
    /\ UNCHANGED <<pipelineVars, loopVars, date, publishVars, jobs, runs, contexts>>

\* A Celery worker executes a task that was sent and stores how it ended.
Work ==
    /\ \E j \in 1..Len(jobs), state \in {"SUCCESS", "FAILURE"} :
         /\ jobs[j].status = "PENDING"
         /\ jobs' = [jobs EXCEPT ![j].status = state]
    /\ UNCHANGED <<pipelineVars, loopVars, date, publishVars, http, runs, contexts>>

\* ---------------------------------------------------------------------------
\* Several run_workflow tasks side by side: each task builds its own
\* IdeatorWorkflow and w.run gives the run its own Context.
\* ---------------------------------------------------------------------------
MaxRuns == 2

Runs == 1..MaxRuns

\* Mutant: one Context for all the runs.
SharedContext(r) == 1

\* The Context in which the steps of run r send and collect their events.
ContextOf(r) == r

\* The tasks have been queued, none has started.
RunsInit ==
    /\ catalog = <<>>
    /\ timeout = None
    /\ date = "2024-01-01"
    /\ Start
    /\ published = <<>>
    /\ errorFiles = {}
    /\ jobs = <<>>
    /\ http = NoExchange
    /\ runs = [r \in Runs |->
                  [status |-> "new", in_flight |-> {}, finalQueue |-> <<>>, result |-> <<>>]]
    /\ contexts = [c \in Runs |-> <<>>]
    /\ position = <<>>
    /\ loop = Nobody

\* run_workflow of task r up to the analysis of its PostLimit products.
RunStart(r) ==
    /\ runs[r].status = "new"
    /\ runs' = [runs EXCEPT ![r].status = "running", ![r].in_flight = 1..PostLimit]
    /\ UNCHANGED <<pipelineVars, loopVars, date, publishVars, apiVars, contexts>>

\* _reimagine_product of run r sends the FinalResultEvent of product k.
RunAnalyzed(r, k) ==
    /\ runs[r].status = "running"
    /\ k \in runs[r].in_flight
    /\ runs' = [runs EXCEPT ![r].in_flight = @ \ {k},
                            ![r].finalQueue = Append(@, [run |-> r, product |-> k])]
    /\ UNCHANGED <<pipelineVars, loopVars, date, publishVars, apiVars, contexts>>

\* _collect_results of run r receives the next FinalResultEvent of the run.
RunCollect(r) ==
    /\ runs[r].status = "running"
    /\ runs[r].finalQueue # <<>>
    /\ contexts' = [contexts EXCEPT ![ContextOf(r)] =
                        CollectEvents(@, Head(runs[r].finalQueue)).buffer]
    /\ runs' = [runs EXCEPT
                    ![r].finalQueue = Tail(@),
                    ![r].status =
                        IF CollectEvents(contexts[ContextOf(r)],
                                         Head(runs[r].finalQueue)).result = <<>>
                        THEN @ ELSE "stopped",
                    ![r].result =
                        CollectEvents(contexts[ContextOf(r)],
                                      Head(runs[r].finalQueue)).result]
    /\ UNCHANGED <<pipelineVars, loopVars, date, publishVars, apiVars>>

\* ---------------------------------------------------------------------------
\* The event loop of one run: the coroutines of the stage instances share one
\* thread. A coroutine gives the thread up only at an `await`; a call made
\* without `await` keeps the thread until it has returned.
\* ---------------------------------------------------------------------------
\* The stage instances of a run on a catalog of one page of PostLimit posts.
Instances ==
    {[step |-> "_fetch_product_hunt_data", product |-> 0]}
        \cup {[step |-> st, product |-> k] :
                 st \in {"_process_product", "_reimagine_product"}, k \in 1..PostLimit}

\* The network calls of a step, in the order its code makes them.
Calls(step) ==
    CASE step = "_fetch_product_hunt_data" -> <<"requests.post">>
      [] step = "_process_product" -> <<"fetch_url", "llm.achat", "requests.get">>
      [] step = "_reimagine_product" -> <<"sllm.achat">>

\* The calls the code makes with `await`: the two LLM calls. fetch_url,
\* requests.get and requests.post are plain synchronous calls.
Awaited(call) == call \in {"llm.achat", "sllm.achat"}

\* Where a coroutine stands after the statement it is at.
After(step, at) ==
    IF at = "queued"
    THEN Calls(step)[1]
    ELSE IF at = Last(Calls(step))
         THEN "returned"
         ELSE Calls(step)[(CHOOSE n \in 1..Len(Calls(step)) : Calls(step)[n] = at) + 1]

\* Instance i is inside one of its network calls, waiting for the answer.
InCall(i) == position[i] \in Range(Calls(i.step))

\* Instance i holds the thread: it is inside a call it did not await.
HoldsThread(i) == InCall(i) /\ ~Awaited(position[i])

\* The events a returning instance sends: a ProductEvent per product, the
\* ReimagineEvent of its product.
Receives(j, i) ==
    \/ i.step = "_fetch_product_hunt_data" /\ j.step = "_process_product"
    \/ /\ i.step = "_process_product" /\ j.step = "_reimagine_product"
       /\ j.product = i.product

\* Instance i can take its next step: the thread is free to start or resume it,
\* or it holds the thread itself.
CanRun(i) ==
    /\ position[i] \in {"queued"} \cup Range(Calls(i.step))
    /\ loop = IF HoldsThread(i) THEN i ELSE Nobody

\* The thread runs instance i from where it stands (its event queued, or the
\* answer to its call in) up to its next network call or to its return.
RunInstance(i) ==
    /\ CanRun(i)
    /\ position' =
          [j \in Instances |->
              IF j = i THEN After(i.step, position[i])
              ELSE IF After(i.step, position[i]) = "returned" /\ Receives(j, i)
                   THEN "queued"
                   ELSE position[j]]
    /\ loop' = IF After(i.step, position[i]) \in Range(Calls(i.step))
                  /\ ~Awaited(After(i.step, position[i]))
               THEN i
               ELSE Nobody
    /\ UNCHANGED <<pipelineVars, date, publishVars, apiVars, runs, contexts>>

\* ---------------------------------------------------------------------------
\* Specifications
\* ---------------------------------------------------------------------------
Next ==
    \/ Construct
    \/ FetchPage
    \/ ProcessStart
    \/ \E task \in processing : ProcessResume(task)
    \/ ReimagineStart
    \/ \E k \in reimagining : ReimagineResume(k)
    \/ CollectResults
    \/ Timeout
    \/ GenerateMarkdown
    \/ WriteDocument

Spec == Init /\ [][Next]_vars

\* The catalogs that answer in pages of PostLimit - 1 posts: a batch of
\* PostLimit products takes two page requests.
PagedCatalogs ==
    {c \in RankedCatalogs :
        \A p \in 1..Len(c) :
           /\ Len(c[p]) <= PostLimit - 1
           /\ p < Len(c) => Len(c[p]) = PostLimit - 1}

\* run_workflow builds its workflow with timeout=None.
RunWorkflowInit ==
    /\ catalog \in PagedCatalogs
    /\ timeout = None
    /\ date = "2024-01-01"
    /\ Start
    /\ Idle

\* The steps of a run whose timeout is not armed.
RunWorkflowNext ==
    \/ Construct
    \/ FetchPage
    \/ ProcessStart
    \/ \E task \in processing : ProcessResume(task)
    \/ ReimagineStart
    \/ \E k \in reimagining : ReimagineResume(k)
    \/ CollectResults
    \/ GenerateMarkdown
    \/ WriteDocument

\* The event loop runs a step that is ready: the run does not stop while a step
\* can be taken.
FairSpec == RunWorkflowInit /\ [][RunWorkflowNext]_vars /\ WF_vars(RunWorkflowNext)

\* The fetch stage alone: the constructor and _fetch_product_hunt_data.
FetchNext ==
    \/ Construct
    \/ FetchPage

FetchSpec == FetchInit /\ [][FetchNext]_vars

\* The fetch stage against the catalogs of every shape (pages of any lengths,
\* empty ones included), the votes of their nodes being equal.
PaginationInit ==
    /\ catalog \in {MakeCatalog(l, [j \in 1..SumSeq(l) |-> 1]) : l \in PageLens}
    /\ timeout = None
    /\ date = "2024-01-01"
    /\ Start
    /\ Idle

\* requests.post blocks until it has an answer or its timeout of 20 s raises: the
\* fetch stage does not stop in the middle of its loop.
PaginationSpec == PaginationInit /\ [][FetchNext]_vars /\ WF_vars(FetchNext)

\* The tasks of the worker pool, interleaved step by step.
RunsNext ==
    \/ \E r \in Runs : RunStart(r)
    \/ \E r \in Runs : \E k \in 1..PostLimit : RunAnalyzed(r, k)
    \/ \E r \in Runs : RunCollect(r)

\* The orders in which the FinalResultEvents of a run may reach the barrier.
Orders == {o \in [1..PostLimit -> 1..PostLimit] : \A i, j \in 1..PostLimit : o[i] = o[j] => i = j}

\* run_workflow at the point where w.run has returned its batch (every product
\* enriched and analyzed, the previews answered alike) and generate_markdown is
\* about to be called; publish_to_wordpress tasks may execute from here on.
PublishInit ==
    /\ catalog = MakeCatalog(<<PostLimit>>, [j \in 1..PostLimit |-> PostLimit - j + 1])
    /\ timeout = None
    /\ date \in Dates
    /\ status = "stopped"
    /\ failure = ""
    /\ token = "access_token"
    /\ tokenExchanges = <<200>>
    /\ requests = <<[after |-> 0, authorization |-> <<"Bearer", " ", token>>,
                      status_code |-> 200]>>
    /\ all_posts = Flatten(catalog)
    /\ has_next_page = FALSE
    /\ cursor = 1
    /\ \E response \in {r \in OgResponses : r.status_code = 200} :
         /\ og_responses = [k \in 1..PostLimit |-> response]
         /\ products = [k \in 1..PostLimit |->
                           [MakeProducts(all_posts)[k] EXCEPT
                               !.long_description = "summary",
                               !.og_image_url = OgImageUrl("", response)]]
    /\ productQueue = <<>>
    /\ processing = {}
    /\ reimagineQueue = <<>>
    /\ reimagining = {}
    /\ finalQueue = <<>>
    /\ buffer = <<>>
    /\ \E order \in Orders, texts \in [1..PostLimit -> AnalysisTexts] :
         /\ arrived = [i \in 1..PostLimit |-> FinalResultEvent(order[i], texts[order[i]])]
         /\ result = arrived
    /\ stopEvents = 1
    /\ llmCalls = [k \in 1..PostLimit |-> [enrich |-> 1, analyze |-> 1]]
    /\ sentEvents = [k \in 1..PostLimit |-> [enriched |-> 1, analyzed |-> 1]]
    /\ document = NoFile
    /\ Idle

\* The end of run_workflow and the publish tasks, interleaved.
PublishNext ==
    \/ GenerateMarkdown
    \/ WriteDocument
    \/ PublishToWordpress
    \/ \E i \in 1..Len(published) : PublishAnswered(i)

PublishSpec == PublishInit /\ [][PublishNext]_vars

RunsSpec == RunsInit /\ [][RunsNext]_vars

\* The API and the workers before any task has been sent.
ApiInit ==
    /\ catalog = <<>>
    /\ timeout = None
    /\ date = DefaultDate
    /\ Start
    /\ Idle

ApiNext ==
    \/ Serve
    \/ ToTaskOut
    \/ Work

ApiSpec == ApiInit /\ [][ApiNext]_vars

\* w.run(date=date) has queued the StartEvent; no step has run yet.
EventLoopInit ==
    /\ catalog = MakeCatalog(<<PostLimit>>, [j \in 1..PostLimit |-> PostLimit - j + 1])
    /\ timeout = None
    /\ date = "2024-01-01"
    /\ Start
    /\ jobs = <<>>
    /\ http = NoExchange
    /\ published = <<>>
    /\ errorFiles = {}
    /\ runs = <<>>
    /\ contexts = <<>>
    /\ position = [i \in Instances |->
                      IF i.step = "_fetch_product_hunt_data" THEN "queued" ELSE "none"]
    /\ loop = Nobody

EventLoopNext == \E i \in Instances : RunInstance(i)

EventLoopSpec == EventLoopInit /\ [][EventLoopNext]_vars

\* ---------------------------------------------------------------------------
\* Properties
\* ---------------------------------------------------------------------------
\* The candidate items of the date: the nodes of all pages of the catalog.
Candidates == Flatten(catalog)

\* The run has ended with w.run returning and the document written.
Completed == status = "done"

\* A call of the run has failed: the token exchange, a catalog query, an LLM
\* completion or the GET of a preview.
CallFailed == failure \in {"token", "catalog", "llm", "og_image"}

\* w.run has returned to run_workflow with its batch.
BatchYielded == stopEvents = 1 /\ status # "running" /\ Len(result) = PostLimit

\* C1: in a run started by run_workflow (no timeout) on a date with at least
\* post_limit candidates, in which no call fails, the workflow eventually
\* completes and hands run_workflow a batch of exactly post_limit (product,
\* proposal) pairs, whatever the order in which the stage instances finish.
C1_EventuallyBatch ==
    (timeout = None /\ Len(Candidates) >= PostLimit) ~> (CallFailed \/ BatchYielded)

C1_Witness ==
    /\ timeout = None
    /\ Len(Candidates) >= PostLimit
    /\ Len(requests) = 2
    /\ failure = ""
    /\ Completed
    /\ Len(result) = PostLimit

\* C2: the barrier returns a StopEvent exactly once, in the step that receives the
\* post_limit-th FinalResultEvent: none while fewer have been received, one from
\* then on, for every order of arrival.
C2_BarrierFiresOnceAtNth ==
    /\ Len(arrived) <= PostLimit
    /\ stopEvents = (IF Len(arrived) = PostLimit THEN 1 ELSE 0)
    /\ (status \in {"stopped", "writing", "done"}) <=> (stopEvents = 1 /\ failure = "")
    /\ (stopEvents = 0) <=> (result = <<>>)

\* The barrier has fired on events that arrived out of the order of emission.
C2_Witness ==
    /\ stopEvents = 1
    /\ Len(arrived) = PostLimit
    /\ arrived[1].product = PostLimit
    /\ arrived[PostLimit].product = 1

\* C3: a run started by run_workflow on a date with fewer than post_limit
\* candidates ends in the failed state (by timing out).
C3_FewCandidatesTimesOut ==
    (timeout = None /\ Len(Candidates) < PostLimit) ~> (status = "failed")

\* The catalog of the scenario: two pages, of 3 nodes and of 1 node.
Scenario == Len(catalog) = 2 /\ Len(catalog[1]) = 3 /\ Len(catalog[2]) = 1

\* The nodes of the pages the fetch stage has requested.
RequestedNodes ==
    Flatten([i \in 1..Len(requests) |-> PageNodes(catalog, requests[i].after)])

Min(a, b) == IF a < b THEN a ELSE b

\* prods are the post_limit most voted of posts: as many as there are (up to the
\* limit), each one of the posts, none twice, and no post left out has more votes
\* than one taken.
IsTopOf(prods, posts) ==
    /\ Len(prods) = Min(PostLimit, Len(posts))
    /\ \A k \in 1..Len(prods) :
          \E i \in 1..Len(posts) :
              posts[i].name = prods[k].name /\ posts[i].votesCount = prods[k].votes_count
    /\ \A j, k \in 1..Len(prods) : j # k => prods[j].name # prods[k].name
    /\ \A i \in 1..Len(posts) :
          (\A k \in 1..Len(prods) : prods[k].name # posts[i].name)
              => \A k \in 1..Len(prods) : prods[k].votes_count >= posts[i].votesCount

\* C4 as stated: in the scenario the ProductEvents sent are the 3 most voted of the
\* 4 nodes of both pages, whatever their votes.
C4_TopOfAllPages ==
    (status = "running" /\ Scenario) => IsTopOf(products, Candidates)

\* C4 amended: the ProductEvents sent are the post_limit most voted of the nodes of
\* the pages requested; in the scenario only the first page is requested and its 3
\* nodes are sent.
C4_TopOfRequestedPages ==
    status = "running" =>
        /\ IsTopOf(products, RequestedNodes)
        /\ Scenario =>
              /\ Len(requests) = 1
              /\ Len(products) = PostLimit
              /\ {products[k].name : k \in 1..Len(products)}
                     = {catalog[1][j].name : j \in 1..Len(catalog[1])}

\* The scenario, with the node of the second page outvoting one of the first.
C4_Witness ==
    /\ status = "running"
    /\ Scenario
    /\ catalog[2][1].votesCount > catalog[1][1].votesCount

\* C5: the ProductEvents are sent in non-increasing order of votes and there are at
\* most post_limit of them, for every sequence of pages.
C5_SortedAndTruncated ==
    /\ Len(products) <= PostLimit
    /\ \A k \in 1..Len(products) - 1 :
          products[k].votes_count >= products[k + 1].votes_count
    /\ status = "running" => productQueue = [k \in 1..Len(products) |-> k]

\* More than post_limit posts were fetched over two pages, out of vote order.
C5_Witness ==
    /\ status = "running"
    /\ Len(requests) = 2
    /\ Len(all_posts) > PostLimit
    /\ all_posts[1].votesCount < all_posts[Len(all_posts)].votesCount
    /\ Len(products) = PostLimit

\* C6: once an LLM call of an enrichment or an analysis has failed the run has
\* failed: no StopEvent, no result, no document, no LLM call issued twice for a
\* product, and no further step of the run.
C6_AllOrNothing ==
    failure = "llm" =>
        /\ status = "failed"
        /\ stopEvents = 0
        /\ result = <<>>
        /\ document = NoFile
        /\ \A k \in 1..Len(llmCalls) : llmCalls[k].enrich <= 1 /\ llmCalls[k].analyze <= 1
        /\ ~ENABLED Next

\* An LLM call failed when the other products had reached the barrier.
C6_Witness ==
    /\ failure = "llm"
    /\ Len(arrived) = PostLimit - 1

\* C7: a catalog response with a status other than 200, to whichever page request,
\* fails the run with no ProductEvent sent and no document.
C7_CatalogRefusalFailsRun ==
    (\E i \in 1..Len(requests) : requests[i].status_code # 200) =>
        /\ status = "failed"
        /\ failure = "catalog"
        /\ products = <<>>
        /\ productQueue = <<>>
        /\ llmCalls = <<>>
        /\ result = <<>>
        /\ document = NoFile

\* The request of the second page was refused after the first page was fetched.
C7_Witness ==
    /\ Len(requests) = 2
    /\ requests[1].status_code = 200
    /\ requests[2].status_code # 200
    /\ all_posts # <<>>
    /\ status = "failed"

\* The state part of C8: at most one exchange, the token set exactly by an accepted
\* exchange and before any catalog request, and a refused exchange leaving a failed
\* run without catalog request, ProductEvent, LLM call or document.
C8_TokenState ==
    /\ Len(tokenExchanges) <= 1
    /\ token # None => tokenExchanges = <<200>>
    /\ requests # <<>> => tokenExchanges = <<200>>
    /\ \A i \in 1..Len(requests) : requests[i].authorization = <<"Bearer", " ", token>>
    /\ (tokenExchanges # <<>> /\ tokenExchanges[1] # 200) =>
          /\ status = "failed"
          /\ requests = <<>>
          /\ products = <<>>
          /\ llmCalls = <<>>
          /\ document = NoFile

\* C8: one token exchange per workflow, before any catalog request; once set the
\* token is not written again and no further exchange is made; a refused exchange
\* aborts the run before any catalog request, ProductEvent or LLM call.
C8_TokenOnce ==
    /\ []C8_TokenState
    /\ [][tokenExchanges # <<>> => token' = token /\ tokenExchanges' = tokenExchanges]_vars

C8_Witness ==
    /\ tokenExchanges # <<>>
    /\ tokenExchanges[1] # 200
    /\ status = "failed"

\* The preview-image GET of product k was answered, without a usable image: a
\* status other than 200, or no og:image tag.
PreviewWithoutImage(k) ==
    /\ og_responses[k] # NoResponse
    /\ ~og_responses[k].raised
    /\ (og_responses[k].status_code # 200 \/ og_responses[k].og_image = None)

\* The preview-image GET of product k raised.
PreviewRaised(k) == og_responses[k].raised

\* A failed or empty scrape gives the empty landing page text.
ScrapeIsBestEffort ==
    \A task \in processing :
        task.downloaded # "html" => task.landing_page_text = ""

\* C9 as stated: whatever way the preview-image fetch of a product fails, its
\* preview field stays empty, its ReimagineEvent is sent and the run is not
\* aborted by it.
C9_PreviewFailureNeverAborts ==
    /\ ScrapeIsBestEffort
    /\ \A k \in 1..Len(og_responses) :
          (PreviewWithoutImage(k) \/ PreviewRaised(k)) =>
              /\ products[k].og_image_url = ""
              /\ sentEvents[k].enriched = 1
              /\ failure # "og_image"

\* C9 amended: a failed or empty scrape gives the empty text; a preview response
\* without a usable image leaves the preview field empty and the ReimagineEvent
\* of the product is still sent; a preview request that raises is not caught, it
\* fails the run and no ReimagineEvent is sent for the product.
C9_PreviewResponseIsBestEffort ==
    /\ ScrapeIsBestEffort
    /\ \A k \in 1..Len(og_responses) :
          /\ PreviewWithoutImage(k) =>
                /\ products[k].og_image_url = ""
                /\ products[k].long_description # ""
                /\ sentEvents[k].enriched = 1
          /\ PreviewRaised(k) =>
                /\ status = "failed"
                /\ failure = "og_image"
                /\ sentEvents[k].enriched = 0
    /\ failure = "og_image" => \E k \in 1..Len(og_responses) : PreviewRaised(k)

\* A run completed although the preview fetch of a product got a 404 page.
C9_Witness ==
    /\ Completed
    /\ \E k \in 1..Len(og_responses) :
          /\ og_responses[k].status_code = 404
          /\ og_responses[k].og_image # None
          /\ sentEvents[k].enriched = 1

\* The product and the proposal headings of a document, pair by pair: the name
\* in each "## [name]" line and the product named in the proposal line after it.
ProductLines(doc) ==
    SelectSeq(doc, LAMBDA l : Len(l) >= 5 /\ SubSeq(l, 1, 4) = <<"#", "#", " ", "[">>)

ProposalLines(doc) ==
    SelectSeq(doc, LAMBDA l : Len(l) >= 4 /\ SubSeq(l, 1, 3) = <<"-", " ", "proposal for ">>)

Headings(doc) ==
    [i \in 1..Len(ProductLines(doc)) |-> <<ProductLines(doc)[i][5], ProposalLines(doc)[i][4]>>]

\* C10: the result of the run holds one (product, proposal) pair for each product
\* whose ProductEvent was sent, the proposal being the one computed from that
\* product, in the order in which the FinalResultEvents reached _collect_results;
\* generate_markdown writes the pairs in that order.
C10_BatchInArrivalOrder ==
    status \in {"stopped", "writing", "done"} =>
        /\ Len(products) = PostLimit
        /\ Len(result) = PostLimit
        /\ result = arrived
        /\ \A k \in 1..Len(products) :
              Cardinality({i \in 1..Len(result) : result[i].product = k}) = 1
        /\ \A i \in 1..Len(result) :
              result[i].proposal.about = products[result[i].product].name
        /\ status = "done" =>
              Headings(document.content) =
                  [i \in 1..Len(result) |->
                      <<ToString(products[result[i].product].name),
                        ToString(result[i].proposal.about)>>]

\* The batch was delivered with the least voted product first.
C10_Witness ==
    /\ Completed
    /\ result[1].product = PostLimit
    /\ products[result[1].product].votes_count < products[result[PostLimit].product].votes_count

\* C11: when the timeout of a run expires before the PostLimit-th
\* FinalResultEvent has reached _collect_results, the run fails as a whole: it
\* is cancelled, no StopEvent is produced, no batch (not even the buffered part)
\* is returned, no document is written, and nothing can happen afterwards.
C11_TimeoutFailsWholeRun ==
    failure = "timeout" =>
        /\ status = "failed"
        /\ Len(arrived) < PostLimit
        /\ stopEvents = 0
        /\ result = <<>>
        /\ document = NoFile
        /\ productQueue = <<>> /\ processing = {} /\ reimagineQueue = <<>>
        /\ reimagining = {} /\ finalQueue = <<>> /\ buffer = <<>>
        /\ ~ENABLED Next

\* The timeout expired while the barrier was holding all but one of the events.
C11_Witness ==
    /\ failure = "timeout"
    /\ status = "failed"
    /\ Len(arrived) = PostLimit - 1

\* C12: runs that execute side by side never share barrier state: the buffer of
\* a run's Context only ever holds FinalResultEvents of that run, a run stops
\* exactly when PostLimit of its own events have reached its _collect_results,
\* and its result is the batch of its own PostLimit products.
C12_RunsHaveOwnBarrier ==
    \A r \in Runs :
        /\ \A i \in 1..Len(contexts[ContextOf(r)]) :
              contexts[ContextOf(r)][i].run = r
        /\ runs[r].status = "running" =>
              /\ runs[r].result = <<>>
              /\ Len(contexts[ContextOf(r)]) + Len(runs[r].finalQueue)
                    + Cardinality(runs[r].in_flight) = PostLimit
        /\ runs[r].status = "stopped" =>
              /\ runs[r].in_flight = {} /\ runs[r].finalQueue = <<>>
              /\ Len(runs[r].result) = PostLimit
              /\ {runs[r].result[i] : i \in 1..PostLimit}
                    = {[run |-> r, product |-> k] : k \in 1..PostLimit}

\* Two runs each hold part of their events in their barrier at the same time.
C12_Witness ==
    /\ DOMAIN runs = Runs
    /\ \E r1, r2 \in Runs :
          /\ r1 # r2
          /\ Len(contexts[ContextOf(r1)]) = PostLimit - 1
          /\ Len(contexts[ContextOf(r2)]) = 1
          /\ runs[r1].status = "running" /\ runs[r2].status = "running"

\* A publish_to_wordpress task has just executed.
Executed == Len(published') = Len(published) + 1

\* C13 (as claimed): the document of the run for `date` is written to
\* data/producthunt-daily-<date>.md, and a publish that follows the successful
\* run of that date reads exactly that path and finds the document.
C13_PublishReadsDocumentOfRun ==
    [][(status = "done" /\ Executed) =>
          /\ Last(published').file_name = FileName(date)
          /\ Last(published').outcome # "not_found"]_vars

\* C13 (amended): publish_to_wordpress takes no date. It reads
\* data/producthunt-daily-<today>.md, today being the date of the worker's clock,
\* so it finds the file of the run exactly when the run has opened it and the
\* date of the run is today; after the run has succeeded what it reads is the
\* document the run wrote and what it posts is built from that document.
C13_PublishReadsTodaysDocument ==
    [][Executed =>
          /\ Last(published').file_name = FileName(Last(published').today)
          /\ (Last(published').outcome # "not_found")
                <=> (document.exists /\ Last(published').today = date)
          /\ (status = "done" /\ Last(published').today = date) =>
                /\ Last(published').content = [exists |-> TRUE,
                                               content |-> Markdown(result, date)]
                /\ Last(published').outcome = "posting"
                /\ Last(published').posts[1].data
                      = PostData(Markdown(result, date), FileName(date))]_vars

\* After the run for a date has succeeded, one publish on that date has found
\* the document and one on another date has not.
C13_Witness ==
    /\ status = "done"
    /\ \E i, j \in 1..Len(published) :
          /\ published[i].today = date /\ published[i].outcome = "published"
          /\ published[i].content.content = document.content
          /\ published[j].today # date /\ published[j].outcome = "not_found"

\* C14: a publish that finds no file under the path it reads logs the not-found
\* error and returns normally: it sends no HTTP request and writes no file, and
\* nothing of it happens later.
C14_MissingDocumentIsNoOp ==
    /\ [][(Executed /\ ~ReadFile(Last(published').file_name).exists) =>
             /\ Last(published').outcome = "not_found"
             /\ Last(published').posts = <<>>
             /\ errorFiles' = errorFiles]_vars
    /\ [][\A i \in 1..Len(published) :
             published[i].outcome = "not_found" => published'[i] = published[i]]_vars

\* A publish on the date of the run found nothing because the run had not
\* opened its document.
C14_Witness ==
    /\ document = NoFile
    /\ \E i \in 1..Len(published) :
          /\ published[i].today = date
          /\ published[i].outcome = "not_found"
          /\ published[i].posts = <<>>
    /\ errorFiles = {}

\* The diagnostic file of execution i holds the body of the response.
ErrorFileWritten(i) ==
    [file_name |-> ErrorFileName(published[i].posts[1].data.slug),
     text |-> published[i].posts[1].response.text] \in errorFiles

\* C15: a publish that finds the file of its document sends exactly one POST
\* and, whatever the status of the response, returns without raising: on 201 it
\* logs the success and writes no file; on any other status it logs the failure
\* and writes the body of the response to data/error_<slug>.json. It never sends
\* the POST a second time.
C15_OnePostPerPublish ==
    \A i \in 1..Len(published) :
        published[i].content.exists =>
            /\ Len(published[i].posts) = 1
            /\ published[i].posts[1].data.status = "publish"
            /\ published[i].outcome \in {"posting", "published", "failed", "raised"}
            /\ published[i].outcome = "published"
                  <=> published[i].posts[1].response.status_code = 201
            /\ published[i].outcome = "failed" =>
                  /\ ~published[i].posts[1].response.raised
                  /\ \E f \in errorFiles :
                        f.file_name = ErrorFileName(published[i].posts[1].data.slug)
            /\ published[i].outcome = "raised" => published[i].posts[1].response.raised

\* C16: the document a publish finds starts with the line "# " followed by the
\* title text; the title of the POST is that text, its body is made of the lines
\* after the first one, so the title line is not in it, and its slug is the name
\* of the file without directory and ".md".
C16_TitleBodySlug ==
    \A i \in 1..Len(published) :
        published[i].posts # <<>> =>
            /\ published[i].content.content[1]
                  = <<"#", " ">> \o published[i].posts[1].data.title
            /\ published[i].posts[1].data.title
                  = <<"ProductHunt Top", " ", ToString(PostLimit), " ", "|", " ", date>>
            /\ Len(published[i].posts[1].data.content)
                  = Cardinality({l \in 2..Len(published[i].content.content) :
                                    published[i].content.content[l] # <<>>})
            /\ \A l \in 1..Len(published[i].posts[1].data.content) :
                  published[i].posts[1].data.content[l]
                      # <<"<h", "1", ">">> \o published[i].posts[1].data.title
            /\ published[i].posts[1].data.content[1][2] = "2"
            /\ published[i].posts[1].data.slug = <<"producthunt-daily-", date>>

\* A publish has posted the document of the run.
C16_Witness ==
    /\ status = "done"
    /\ published # <<>>
    /\ published[1].posts # <<>>
    /\ published[1].content.content = Markdown(result, date)
    /\ published[1].posts[1].data.title[3] = ToString(PostLimit)

\* C17: rendering is a total, repeatable function of the batch and the date:
\* once run_workflow has handed the batch to generate_markdown and has ended,
\* the document exists, it starts with the title line and holds, pair after pair
\* in the order of the batch, the block of the product followed by the block of
\* its analysis and the separator; rendering the batch again would leave the
\* file as it is.
C17_RenderingOfEveryBatch ==
    (stopEvents = 1 /\ status \in {"done", "failed"}) =>
        /\ document.exists
        /\ document.content # <<>>
        /\ document.content[1] = TitleLines(date)[1]
        /\ Headings(document.content) =
              [i \in 1..Len(result) |->
                  <<ToString(products[result[i].product].name),
                    ToString(result[i].proposal.about)>>]
        /\ Cardinality({l \in 1..Len(document.content) :
                           document.content[l] # <<>>
                               /\ Last(document.content[l]) = "---"}) = Len(result)
        /\ ~MarkdownRaises(result)
        /\ document.content = Markdown(result, date)

\* C18: every request to the run_workflow endpoint (the path of the route, as
\* test_run_workflow requests it) is answered with 200 and a task id that is not
\* None: the handle of the one run_workflow task sent for it, which carries the
\* date of the request.
C18_RunWorkflowEndpointAnswers200 ==
    (http.n > 0 /\ ~InHandler /\ http.request.path = "/") =>
        /\ http.response.status_code = 200
        /\ http.response.body.id # None
        /\ \E j \in 1..Len(jobs) :
              /\ jobs[j].task_id = http.response.body.id
              /\ jobs[j].task = "run_workflow"
              /\ jobs[j].args = <<BodyDate(http.request)>>

\* C19: a status query (GET /status with a task_id) is answered with 200 and a
\* status that is not None for every task id, also one that was never issued,
\* for which it reports PENDING; answering it changes the state of no task.
C19_StatusQueryIsReadOnly ==
    [][(/\ http'.n = http.n + 1
        /\ http'.request.path = "/status"
        /\ http'.request.method = "GET"
        /\ http'.request.task_id # None) =>
          /\ http'.response.status_code = 200
          /\ http'.response.body.id = http'.request.task_id
          /\ http'.response.body.status # None
          /\ http'.response.body.status \in {"PENDING", "SUCCESS", "FAILURE"}
          /\ (\A j \in 1..Len(jobs) : jobs[j].task_id # http'.request.task_id) =>
                http'.response.body.status = "PENDING"
          /\ jobs' = jobs]_vars

\* With a finished task in the backend, the status of an id that was never
\* issued has been asked for and reported.
C19_Witness ==
    /\ http.n > 0
    /\ http.request.path = "/status"
    /\ http.request.task_id = "some_task_id"
    /\ http.response.status_code = 200
    /\ http.response.body.status = "PENDING"
    /\ \E j \in 1..Len(jobs) : jobs[j].status = "SUCCESS"

\* The FinalResultEvents that have been sent and not dropped by a failure: those
\* on their way to the barrier, those it holds and those of the batch.
AtBarrier == finalQueue \o buffer \o result

\* C20: every product passes the stages in the order ProductEvent ->
\* ReimagineEvent -> FinalResultEvent -> barrier, one-to-one: at most one
\* ReimagineEvent and one FinalResultEvent are ever sent for a product, and
\* exactly one of each in a run that yields its batch; the analysis of a product
\* starts only after its ReimagineEvent was sent, that is after its description
\* was written and its preview was requested and answered; and every event that
\* reaches the barrier is the one FinalResultEvent of an analyzed product.
C20_StagesInOrder ==
    /\ \A k \in 1..Len(products) :
          /\ llmCalls[k].enrich <= 1 /\ llmCalls[k].analyze <= 1
          /\ sentEvents[k].enriched <= llmCalls[k].enrich
          /\ llmCalls[k].analyze <= sentEvents[k].enriched
          /\ sentEvents[k].analyzed <= llmCalls[k].analyze
          /\ llmCalls[k].analyze = 1 =>
                /\ products[k].long_description = "summary"
                /\ og_responses[k] # NoResponse
                /\ ~og_responses[k].raised
          /\ BatchYielded => sentEvents[k].enriched = 1 /\ sentEvents[k].analyzed = 1
    /\ \A i \in 1..Len(AtBarrier) :
          /\ sentEvents[AtBarrier[i].product].analyzed = 1
          /\ AtBarrier[i].proposal.about = products[AtBarrier[i].product].name
          /\ \A j \in 1..Len(AtBarrier) : AtBarrier[j].product = AtBarrier[i].product => j = i

\* One product is being analyzed while another is still being enriched and a
\* third has not entered the enrichment stage.
C20_Witness ==
    /\ status = "running"
    /\ Len(products) = PostLimit
    /\ \E k1, k2, k3 \in 1..PostLimit :
          /\ llmCalls[k1].analyze = 1 /\ sentEvents[k1].analyzed = 0
          /\ llmCalls[k2].enrich = 1 /\ sentEvents[k2].enriched = 0
          /\ llmCalls[k3].enrich = 0

\* ---------------------------------------------------------------------------
\* C21
\* ---------------------------------------------------------------------------
\* The ProductEvents no worker has taken yet.
WaitingForEnrichment == IF status = "running" THEN Len(productQueue) ELSE 0

\* The ReimagineEvents no worker has taken yet.
WaitingForAnalysis == IF status = "running" THEN Len(reimagineQueue) ELSE 0

\* C21: at most post_limit instances of _process_product and, separately, at
\* most post_limit instances of _reimagine_product are in flight at any time,
\* and while a ProductEvent or a ReimagineEvent is queued a worker of its step
\* is free, so no event waits for a worker that is busy with another product.
C21_PoolHoldsEveryItem ==
    /\ Cardinality(processing) <= PostLimit
    /\ Cardinality(reimagining) <= PostLimit
    /\ WaitingForEnrichment > 0 => Cardinality(processing) < NumWorkers
    /\ WaitingForAnalysis > 0 => Cardinality(reimagining) < NumWorkers

\* PostLimit products sent; one is still queued for enrichment while another is
\* being enriched, and one is queued for analysis.
C21_Witness ==
    /\ status = "running"
    /\ Len(products) = PostLimit
    /\ productQueue # <<>>
    /\ processing # {}
    /\ reimagineQueue # <<>>

\* ---------------------------------------------------------------------------
\* C22
\* ---------------------------------------------------------------------------
\* Product k is in the hands of an instance of _process_product.
BeingEnriched(k) == \E task \in processing : task.product = k

\* The FinalResultEvents sent for product k that are queued, buffered or returned.
ResultsOf(k) == SelectSeq(AtBarrier, LAMBDA ev : ev.product = k)

\* A step that changes a derived field of a product changes it from the empty
\* string, and is a step of the instance of _process_product that holds it.
WrittenOnceByEnrichment ==
    /\ Len(products) > 0 => Len(products') = Len(products)
    /\ \A k \in 1..Len(products) :
          /\ products'[k].long_description # products[k].long_description =>
                products[k].long_description = "" /\ BeingEnriched(k)
          /\ products'[k].og_image_url # products[k].og_image_url =>
                products[k].og_image_url = "" /\ BeingEnriched(k)
          /\ products'[k].name = products[k].name
          /\ products'[k].votes_count = products[k].votes_count

\* No product has more than one analysis result, and in a run that yields its
\* batch every product has exactly one, in the batch.
OneAnalysisPerProduct ==
    \A k \in 1..Len(products) :
       /\ Len(ResultsOf(k)) <= 1
       /\ BatchYielded => Len(SelectSeq(result, LAMBDA ev : ev.product = k)) = 1

\* C22: the derived fields of a product are write-once per run: long_description
\* and og_image_url each change at most once, from empty to their value, only in
\* a step of the enrichment stage on that product; and exactly one analysis
\* result is produced per product.
C22_DerivedFieldsWriteOnce ==
    /\ [][WrittenOnceByEnrichment]_vars
    /\ []OneAnalysisPerProduct

\* A product with both derived fields written and its one analysis result at the
\* barrier, while another product has neither field written yet.
C22_Witness ==
    \E k, j \in 1..Len(products) :
       /\ products[k].long_description # ""
       /\ products[k].og_image_url # ""
       /\ Len(ResultsOf(k)) = 1
       /\ products[j].long_description = ""
       /\ products[j].og_image_url = ""

\* ---------------------------------------------------------------------------
\* C24
\* ---------------------------------------------------------------------------
\* The posts collected from the answers to the first n page requests.
CollectedAfter(n) ==
    Flatten([i \in 1..n |-> PageNodes(catalog, requests[i].after)])

\* The first request carries the empty cursor, each later one the endCursor of the
\* answer before it; a request is sent only after an answer with status 200 and
\* hasNextPage = true that left fewer than post_limit posts collected.
PagesInSequence ==
    \A i \in 1..Len(requests) :
       IF i = 1
       THEN requests[i].after = 0
       ELSE /\ requests[i - 1].status_code = 200
            /\ requests[i].after = requests[i - 1].after + 1
            /\ PageHasNext(catalog, requests[i - 1].after)
            /\ Len(CollectedAfter(i - 1)) < PostLimit

\* The loop of _fetch_product_hunt_data is over: the ProductEvents were sent or
\* the stage (or the constructor before it) raised.
PaginationOver == status \in {"running", "failed"}

\* C24: the catalog pages are requested one after another, the first with the
\* empty cursor and each later one with the endCursor of the previous answer; no
\* page is requested after an answer with hasNextPage = false or once post_limit
\* posts are collected; and on a catalog of finitely many pages the loop ends.
C24_PaginationSequentialAndFinite ==
    /\ []PagesInSequence
    /\ <>PaginationOver

\* Two pages were requested, the second with the cursor the first answer gave,
\* and the loop is over with the posts of both collected.
C24_Witness ==
    /\ Len(requests) = 2
    /\ requests[1].after = 0 /\ requests[2].after = 1
    /\ requests[2].status_code = 200
    /\ status = "running"
    /\ all_posts = CollectedAfter(2)
    /\ Len(catalog[2]) > 0

\* ---------------------------------------------------------------------------
\* C23
\* ---------------------------------------------------------------------------
\* Instance j has a step to take: its event is queued or it is inside a call.
HasStep(j) == position[j] \notin {"none", "returned"}

\* C23: every network call of a stage instance (catalog fetch, landing-page
\* scrape, preview-image fetch, LLM completion) is a suspension point: while an
\* instance is inside any of these calls, every other instance of the run that
\* has a step to take can take it.
C23_EveryNetworkCallSuspends ==
    \A i, j \in Instances :
       (i # j /\ InCall(i) /\ HasStep(j)) => CanRun(j)

====
